---- MODULE Spec2Model ----
(***************************************************************************)
(* A model of scripts/diffusiondb.py, the loading script of DiffusionDB:   *)
(* the class body that builds BUILDER_CONFIGS, _split_generators and the   *)
(* generator _generate_examples.                                           *)
(*                                                                         *)
(* The id space and the size list are scaled: MaxPartId stands for the     *)
(* 2000 of range(1, 2001) and NumKs for [1, 5, 10, 50, 100, 500, 1000].    *)
(* Every operator below is written for an arbitrary id space and size.    *)
(***************************************************************************)
EXTENDS Integers, Sequences, FiniteSets, TLC

VARIABLES
    pc,               \* where the program is
    BUILDER_CONFIGS,  \* DiffusionDB.BUILDER_CONFIGS, in append order
    loop,             \* <<i, j>>: position of the two class-body for loops
    config,           \* self.config of the instantiated builder
    part_idx,         \* position of the for loop of _split_generators
    data_dirs,        \* data_dirs of _split_generators / _generate_examples
    json_paths,       \* json_paths of _split_generators / _generate_examples
    fetched,          \* the calls made to dl_manager, in order
    metadata_df,      \* the table read by pd.read_parquet
    row_idx,          \* position of iterrows()
    k,                \* range(num_data_dirs) position
    json_data,        \* the sidecar loaded for data_dirs[k]
    img_idx,          \* position of "for img_name in json_data"
    opened,           \* the sidecars opened so far: <<k, path, content>>
    emitted,          \* the (key, example) pairs yielded so far
    error             \* the exception that ended the run, or NoError

vars == <<pc, BUILDER_CONFIGS, loop, config, part_idx, data_dirs, json_paths,
          fetched, metadata_df, row_idx, k, json_data, img_idx, opened,
          emitted, error>>

-----------------------------------------------------------------------------
(* Bounds *)

\* the largest part id; range(1, 2001) in the source
MaxPartId == 3
\* the largest number of rows of the metadata table
MaxRows == 2

-----------------------------------------------------------------------------
(* Module-level constants of the script *)

\* _PART_IDS = range(1, 2001), as the sequence of its elements
_PART_IDS == [i \in 1 .. MaxPartId |-> i]

\* the sizes of "for num_k in [...]", each a number of 1000-image parts
NumKs == <<1, 2>>

\* for sampling in ["first", "random"]
Samplings == <<"first", "random">>

\* the "k" of a config name: f"{num_k}k" advertises num_k thousand images
Kilo == 1000

RECURSIVE Zeros(_)
Zeros(n) == IF n <= 0 THEN "" ELSE "0" \o Zeros(n - 1)

\* f"{i:06}": decimal, zero-padded on the left to at least 6 characters
Pad06(i) == Zeros(6 - Len(ToString(i))) \o ToString(i)

\* hf_hub_url("datasets/poloclub/diffusiondb", filename=...)
hf_hub_url(filename) ==
    "https://huggingface.co/datasets/poloclub/diffusiondb/resolve/main/" \o filename

\* _URLS[i] for a part id i
_URLS(i) == hf_hub_url("images/part-" \o Pad06(i) \o ".zip")

\* _URLS["metadata"]
_URLS_metadata == hf_hub_url("metadata.parquet")

_SAMPLER_DICT ==
    (1 :> "ddim") @@ (2 :> "plms") @@ (3 :> "k_euler") @@
    (4 :> "k_euler_ancestral") @@ (5 :> "ddik_heunm") @@ (6 :> "k_dpm_2") @@
    (7 :> "k_dpm_2_ancestral") @@ (8 :> "k_lms") @@ (9 :> "others")

-----------------------------------------------------------------------------
(* Python helpers *)

Min(a, b) == IF a < b THEN a ELSE b

\* seq[lo:hi] for 0 <= lo, 0 <= hi (0-based, half-open, clamped to the length)
PySlice(seq, lo, hi) ==
    LET stop == Min(hi, Len(seq))
    IN  IF lo >= stop THEN <<>>
        ELSE [i \in 1 .. (stop - lo) |-> seq[lo + i]]

\* os.path.join(dir, name)
join(dir, name) == [dir |-> dir, name |-> name]

\* the outcomes of np.random.choice(a, size, replace=True): any sequence
ChoiceWithReplacement(a, size) == [1 .. size -> {a[i] : i \in DOMAIN a}]

\* the outcomes of np.random.choice(a, size, replace=False).tolist():
\* the sequences of size elements of a taken at pairwise distinct positions
RandomChoice(a, size) ==
    { [i \in 1 .. size |-> a[p[i]]] :
        p \in { q \in [1 .. size -> DOMAIN a] :
                  \A x, y \in 1 .. size : x # y => q[x] # q[y] } }

\* f"{num_k}k" if num_k < 1000 else f"{num_k // 1000}m"
NumKStr(num_k) ==
    IF num_k < 1000 THEN ToString(num_k) \o "k"
    ELSE ToString(num_k \div 1000) \o "m"

\* _PART_IDS[1 : num_k]: one element short
FirstPartIdsShort(num_k) == PySlice(_PART_IDS, 1, num_k)

\* part_ids = _PART_IDS[1 : num_k + 1]
FirstPartIds(num_k) == PySlice(_PART_IDS, 1, num_k + 1)

\* part_ids of the "all" config, taken as a slice that drops the last id
AllPartIdsShort == PySlice(_PART_IDS, 0, Len(_PART_IDS) - 1)

\* part_ids=_PART_IDS of the "all" config
AllPartIds == _PART_IDS

\* part_ids of "text_only" taken to be every part
TextOnlyPartIdsAll == _PART_IDS

\* part_ids=[] of the "text_only" config
TextOnlyPartIds == <<>>

\* DiffusionDBConfig(name=..., part_ids=..., description=...)
DiffusionDBConfig(name, part_ids, description) ==
    [name |-> name, part_ids |-> part_ids, description |-> description]

NoConfig == [name |-> "", part_ids |-> <<>>, description |-> ""]

\* error: the exception that ended the run and its argument
Exception(exc, arg) == [exc |-> exc, arg |-> arg]
NoError == Exception("none", "")

\* the error taxonomy, as the exceptions the script lets through
ResourceUnavailable == "ConnectionError"   \* raised by dl_manager
CorruptMetadata == "JSONDecodeError"       \* raised by json.load
MissingAsset == "FileNotFoundError"        \* raised by open(img_path, "rb")
UnknownSamplerCode == "KeyError"           \* raised by _SAMPLER_DICT[...]
NoData == <<>>

-----------------------------------------------------------------------------
(* The class body: lines 84-141, run once when the script is imported *)

Init ==
    /\ pc = "class_body"
    /\ BUILDER_CONFIGS = <<>>
    /\ loop = <<1, 1>>
    /\ config = NoConfig
    /\ part_idx = 0
    /\ data_dirs = <<>>
    /\ json_paths = <<>>
    /\ fetched = <<>>
    /\ metadata_df = NoData
    /\ row_idx = 0
    /\ k = 0
    /\ json_data = NoData
    /\ img_idx = 0
    /\ opened = <<>>
    /\ emitted = <<>>
    /\ error = NoError

RunVars == <<config, part_idx, data_dirs, json_paths, fetched, metadata_df,
             row_idx, k, json_data, img_idx, opened, emitted, error>>

\* the loop counters after one pass of the inner loop
NextLoop == IF loop[2] < Len(Samplings) THEN <<loop[1], loop[2] + 1>>
            ELSE <<loop[1] + 1, 1>>

\* one pass of the body of the two nested for loops (lines 88-120)
AppendSizedConfig ==
    /\ pc = "class_body"
    /\ loop[1] <= Len(NumKs)
    /\ LET num_k == NumKs[loop[1]]
           sampling == Samplings[loop[2]]
           num_k_str == NumKStr(num_k)
       IN  \E part_ids \in IF sampling = "random"
                           THEN RandomChoice(_PART_IDS, num_k)
                           ELSE {FirstPartIds(num_k)} :
             BUILDER_CONFIGS' = Append(BUILDER_CONFIGS,
                 IF sampling = "random"
                 THEN DiffusionDBConfig("random_" \o num_k_str, part_ids,
                        "Random " \o num_k_str
                          \o " images with their prompts and parameters")
                 ELSE DiffusionDBConfig("first_" \o num_k_str, part_ids,
                        "The first " \o num_k_str
                          \o " images in this dataset with their prompts and parameters"))
    /\ loop' = NextLoop
    /\ UNCHANGED <<pc, RunVars>>

\* lines 122-141: the "all" and "text_only" configs, after the loops
AppendFixedConfigs ==
    /\ pc = "class_body"
    /\ loop[1] > Len(NumKs)
    /\ BUILDER_CONFIGS' = BUILDER_CONFIGS \o
         << DiffusionDBConfig("all", AllPartIds,
                "All images with their prompts and parameters"),
            DiffusionDBConfig("text_only", TextOnlyPartIds,
                "Only include all prompts and parameters (no image)") >>
    /\ pc' = "imported"
    /\ UNCHANGED <<loop, RunVars>>

DEFAULT_CONFIG_NAME == "random_1k"

\* the names of the catalog
ConfigNames == {BUILDER_CONFIGS[i].name : i \in DOMAIN BUILDER_CONFIGS}

\* the config of BUILDER_CONFIGS with this name
resolve(name) ==
    BUILDER_CONFIGS[CHOOSE i \in DOMAIN BUILDER_CONFIGS :
                      BUILDER_CONFIGS[i].name = name]

\* the builder is instantiated with one of the configs (self.config)
SelectConfig ==
    /\ pc = "imported"
    /\ \E name \in ConfigNames : config' = resolve(name)
    /\ pc' = "split_generators"
    /\ UNCHANGED <<BUILDER_CONFIGS, loop, part_idx, data_dirs, json_paths,
                   fetched, metadata_df, row_idx, k, json_data, img_idx,
                   opened, emitted, error>>

-----------------------------------------------------------------------------
(* The environment: what the download manager and the disk hold *)

\* dl_manager.download_and_extract(url): the directory the archive is extracted to
download_and_extract(url) == [extracted |-> url]

\* dl_manager.download(url): the local copy of the file
download(url) == [downloaded |-> url]

Call(op, url) == [op |-> op, url |-> url]

\* img_params of two sidecar entries; "c" is kept in tenths (75 is 7.5)
ParamsCat == [p |-> "cat", se |-> 1, st |-> 20, c |-> 75, sa |-> "ddim"]
ParamsDog == [p |-> "dog", se |-> 2, st |-> 30, c |-> 80, sa |-> "plms"]

Entry(name, params) == [name |-> name, params |-> params]

\* the sidecars a part may hold: a JSON object, as its (filename, params)
\* members in insertion order; the filenames of one object are distinct
Sidecars ==
    { <<>>,
      <<Entry("a.png", ParamsDog)>>,
      <<Entry("a.png", ParamsCat), Entry("b.png", ParamsDog)>>,
      <<Entry("b.png", ParamsDog), Entry("a.png", ParamsCat)>> }

\* the sampler codes a table row may hold: 1..9 and one code on either side
SamplerCodes == 0 .. 10

\* the rows a metadata table may hold: a row named "x" with any of the
\* codes, and a row named "y" with code 2
Rows ==
    [image_name : {"x"}, prompt : {"dog"}, part_id : {3}, seed : {9},
     step : {10}, cfg : {60}, sampler : SamplerCodes]
    \cup
    [image_name : {"y"}, prompt : {"cat"}, part_id : {1}, seed : {1},
     step : {20}, cfg : {75}, sampler : {2}]

\* the tables pd.read_parquet may return, row order kept
Tables == UNION { [1 .. n -> Rows] : n \in 0 .. MaxRows }

\* int(x) of a JSON integer
PyInt(x) == x

\* float(x) of a JSON number (in tenths)
PyFloat(x) == x

-----------------------------------------------------------------------------
(* _split_generators: lines 180-216 *)

\* join(data_dir, f"part-{cur_part_id}.json"): the id not padded
SidecarPathUnpadded(data_dir, cur_part_id) ==
    join(data_dir, "part-" \o ToString(cur_part_id) \o ".json")

\* join(data_dir, f"part-{cur_part_id:06}.json") (line 200)
SidecarPath(data_dir, cur_part_id) ==
    join(data_dir, "part-" \o Pad06(cur_part_id) \o ".json")

Fail(exc, arg) ==
    /\ pc' = "failed"
    /\ error' = Exception(exc, arg)

\* one pass of "for cur_part_id in self.config.part_ids" (lines 195-200)
SplitDownloadPart ==
    /\ pc = "split_generators"
    /\ part_idx < Len(config.part_ids)
    /\ LET cur_part_id == config.part_ids[part_idx + 1]
           cur_url == _URLS(cur_part_id)
           data_dir == download_and_extract(cur_url)
       IN  /\ fetched' = Append(fetched, Call("download_and_extract", cur_url))
           /\ \/ /\ data_dirs' = Append(data_dirs, data_dir)
                 /\ json_paths' = Append(json_paths,
                        SidecarPath(data_dir, cur_part_id))
                 /\ part_idx' = part_idx + 1
                 /\ UNCHANGED <<pc, error>>
              \/ /\ Fail(ResourceUnavailable, cur_url)
                 /\ UNCHANGED <<data_dirs, json_paths, part_idx>>
    /\ UNCHANGED <<BUILDER_CONFIGS, loop, config, metadata_df, row_idx, k,
                   json_data, img_idx, opened, emitted>>

\* after the loop: the text_only download and the return (lines 204-216)
SplitReturn ==
    /\ pc = "split_generators"
    /\ part_idx = Len(config.part_ids)
    /\ IF config.name = "text_only"
       THEN /\ fetched' = Append(fetched, Call("download", _URLS_metadata))
            /\ \/ /\ data_dirs' = <<download(_URLS_metadata)>>
                  /\ pc' = "generate"
                  /\ UNCHANGED error
               \/ /\ Fail(ResourceUnavailable, _URLS_metadata)
                  /\ UNCHANGED data_dirs
       ELSE /\ pc' = "generate"
            /\ UNCHANGED <<fetched, data_dirs, error>>
    /\ UNCHANGED <<BUILDER_CONFIGS, loop, config, part_idx, json_paths,
                   metadata_df, row_idx, k, json_data, img_idx, opened, emitted>>

-----------------------------------------------------------------------------
(* _generate_examples: lines 218-264, a generator pulled by the consumer *)

\* a row's example with the sampler code only turned into a string
TextExampleRawSampler(row) ==
    [key |-> row.image_name,
     example |-> [image_name |-> row.image_name,
                  prompt |-> row.prompt,
                  part_id |-> row.part_id,
                  seed |-> row.seed,
                  step |-> row.step,
                  cfg |-> row.cfg,
                  sampler |-> ToString(row.sampler)]]

\* the (key, example) pair of a table row (lines 228-236)
TextExample(row) ==
    [key |-> row.image_name,
     example |-> [image_name |-> row.image_name,
                  prompt |-> row.prompt,
                  part_id |-> row.part_id,
                  seed |-> row.seed,
                  step |-> row.step,
                  cfg |-> row.cfg,
                  sampler |-> _SAMPLER_DICT[row.sampler]]]

\* a sidecar entry's example with the parameters of the sidecar's first entry
ImageExampleFirstParams(cur_data_dir, img_name, img_params) ==
    [key |-> img_name,
     example |-> [image |-> [path |-> join(cur_data_dir, img_name),
                             bytes |-> <<"bytes of", join(cur_data_dir, img_name)>>],
                  prompt |-> json_data[1].params.p,
                  seed |-> PyInt(json_data[1].params.se),
                  step |-> PyInt(json_data[1].params.st),
                  cfg |-> PyFloat(json_data[1].params.c),
                  sampler |-> json_data[1].params.sa]]

\* the (key, example) pair of a sidecar entry (lines 250-264)
ImageExample(cur_data_dir, img_name, img_params) ==
    [key |-> img_name,
     example |-> [image |-> [path |-> join(cur_data_dir, img_name),
                             bytes |-> <<"bytes of", join(cur_data_dir, img_name)>>],
                  prompt |-> img_params.p,
                  seed |-> PyInt(img_params.se),
                  step |-> PyInt(img_params.st),
                  cfg |-> PyFloat(img_params.c),
                  sampler |-> img_params.sa]]

\* text_only: metadata_df = pd.read_parquet(data_dirs[0]) (lines 225-226)
GenReadParquet ==
    /\ pc = "generate"
    /\ config.name = "text_only"
    /\ \E table \in Tables : metadata_df' = table
    /\ row_idx' = 0
    /\ pc' = "rows"
    /\ UNCHANGED <<BUILDER_CONFIGS, loop, config, part_idx, data_dirs,
                   json_paths, fetched, k, json_data, img_idx, opened,
                   emitted, error>>

\* GenRow with a row dropped when its key was already yielded
GenRowDedup ==
    /\ pc = "rows"
    /\ row_idx < Len(metadata_df)
    /\ LET row == metadata_df[row_idx + 1]
       IN  IF row.sampler \in DOMAIN _SAMPLER_DICT
           THEN /\ emitted' =
                     IF \E i \in DOMAIN emitted : emitted[i].key = row.image_name
                     THEN emitted
                     ELSE Append(emitted, TextExample(row))
                /\ row_idx' = row_idx + 1
                /\ UNCHANGED <<pc, error>>
           ELSE /\ Fail(UnknownSamplerCode, row.sampler)
                /\ UNCHANGED <<emitted, row_idx>>
    /\ UNCHANGED <<BUILDER_CONFIGS, loop, config, part_idx, data_dirs,
                   json_paths, fetched, metadata_df, k, json_data, img_idx,
                   opened>>

\* one pass of "for _, row in metadata_df.iterrows()" (lines 227-236)
GenRow ==
    /\ pc = "rows"
    /\ row_idx < Len(metadata_df)
    /\ LET row == metadata_df[row_idx + 1]
       IN  IF row.sampler \in DOMAIN _SAMPLER_DICT
           THEN /\ emitted' = Append(emitted, TextExample(row))
                /\ row_idx' = row_idx + 1
                /\ UNCHANGED <<pc, error>>
           ELSE /\ Fail(UnknownSamplerCode, row.sampler)
                /\ UNCHANGED <<emitted, row_idx>>
    /\ UNCHANGED <<BUILDER_CONFIGS, loop, config, part_idx, data_dirs,
                   json_paths, fetched, metadata_df, k, json_data, img_idx,
                   opened>>

\* iterrows() is exhausted: the generator returns
GenRowsEnd ==
    /\ pc = "rows"
    /\ row_idx = Len(metadata_df)
    /\ pc' = "exhausted"
    /\ UNCHANGED <<BUILDER_CONFIGS, loop, config, part_idx, data_dirs,
                   json_paths, fetched, metadata_df, row_idx, k, json_data,
                   img_idx, opened, emitted, error>>

\* image configs: num_data_dirs and the assert (lines 240-241)
GenStartImages ==
    /\ pc = "generate"
    /\ config.name # "text_only"
    /\ IF Len(data_dirs) = Len(json_paths)
       THEN /\ pc' = "shards"
            /\ UNCHANGED error
       ELSE Fail("AssertionError", "")
    /\ k' = 0
    /\ UNCHANGED <<BUILDER_CONFIGS, loop, config, part_idx, data_dirs,
                   json_paths, fetched, metadata_df, row_idx, json_data,
                   img_idx, opened, emitted>>

\* one pass of "for k in range(num_data_dirs)" up to the inner loop:
\* json_data = load(open(cur_json_path)) (lines 243-247)
GenOpenSidecar ==
    /\ pc = "shards"
    /\ k < Len(data_dirs)
    /\ LET cur_json_path == json_paths[k + 1]
       IN  \/ \E content \in Sidecars :
                /\ json_data' = content
                /\ opened' = Append(opened, <<k, cur_json_path, content>>)
                /\ img_idx' = 0
                /\ pc' = "images"
                /\ UNCHANGED error
           \/ /\ Fail(CorruptMetadata, cur_json_path)
              /\ UNCHANGED <<json_data, opened, img_idx>>
    /\ UNCHANGED <<BUILDER_CONFIGS, loop, config, part_idx, data_dirs,
                   json_paths, fetched, metadata_df, row_idx, k, emitted>>

\* GenImage with a missing image file passed over instead of raising
GenImageSkipMissing ==
    /\ pc = "images"
    /\ img_idx < Len(json_data)
    /\ LET cur_data_dir == data_dirs[k + 1]
           img_name == json_data[img_idx + 1].name
           img_params == json_data[img_idx + 1].params
       IN  \/ emitted' = Append(emitted,
                    ImageExample(cur_data_dir, img_name, img_params))
           \/ UNCHANGED emitted
    /\ img_idx' = img_idx + 1
    /\ UNCHANGED <<BUILDER_CONFIGS, loop, config, part_idx, data_dirs,
                   json_paths, fetched, metadata_df, row_idx, k, json_data,
                   opened, pc, error>>

\* one pass of "for img_name in json_data" (lines 249-264); the image file
\* is opened while the example is built, before the yield
GenImage ==
    /\ pc = "images"
    /\ img_idx < Len(json_data)
    /\ LET cur_data_dir == data_dirs[k + 1]
           img_name == json_data[img_idx + 1].name
           img_params == json_data[img_idx + 1].params
       IN  \/ /\ emitted' = Append(emitted,
                     ImageExample(cur_data_dir, img_name, img_params))
              /\ img_idx' = img_idx + 1
              /\ UNCHANGED <<pc, error>>
           \/ /\ Fail(MissingAsset, join(cur_data_dir, img_name))
              /\ UNCHANGED <<emitted, img_idx>>
    /\ UNCHANGED <<BUILDER_CONFIGS, loop, config, part_idx, data_dirs,
                   json_paths, fetched, metadata_df, row_idx, k, json_data,
                   opened>>

\* the inner loop is exhausted: on to the next k
GenShardEnd ==
    /\ pc = "images"
    /\ img_idx = Len(json_data)
    /\ k' = k + 1
    /\ pc' = "shards"
    /\ UNCHANGED <<BUILDER_CONFIGS, loop, config, part_idx, data_dirs,
                   json_paths, fetched, metadata_df, row_idx, json_data,
                   img_idx, opened, emitted, error>>

\* range(num_data_dirs) is exhausted: the generator returns
GenShardsEnd ==
    /\ pc = "shards"
    /\ k = Len(data_dirs)
    /\ pc' = "exhausted"
    /\ UNCHANGED <<BUILDER_CONFIGS, loop, config, part_idx, data_dirs,
                   json_paths, fetched, metadata_df, row_idx, k, json_data,
                   img_idx, opened, emitted, error>>

-----------------------------------------------------------------------------
Next ==
    \/ AppendSizedConfig
    \/ AppendFixedConfigs
    \/ SelectConfig
    \/ SplitDownloadPart
    \/ SplitReturn
    \/ GenReadParquet
    \/ GenRow
    \/ GenRowsEnd
    \/ GenStartImages
    \/ GenOpenSidecar
    \/ GenImage
    \/ GenShardEnd
    \/ GenShardsEnd

Spec == Init /\ [][Next]_vars

-----------------------------------------------------------------------------
(* Helpers of the properties *)

\* the name of the sized config of policy s and the i-th size
SizedName(s, i) == s \o "_" \o NumKStr(NumKs[i])

IsInjective(seq) ==
    \A i, j \in DOMAIN seq : i # j => seq[i] # seq[j]

RECURSIVE Flatten(_)
Flatten(seqs) == IF seqs = <<>> THEN <<>> ELSE Head(seqs) \o Flatten(Tail(seqs))

ImageMode == config # NoConfig /\ config.name # "text_only"
TextMode == config.name = "text_only"

\* the entries of the n-th opened sidecar that the inner loop has passed
Consumed(n) ==
    IF n = k + 1 THEN SubSeq(opened[n][3], 1, img_idx) ELSE opened[n][3]

\* the sidecar entries passed so far, in (shard, sidecar) order, each with
\* the position n of its shard in the resolved list
PassedEntries ==
    Flatten([n \in 1 .. Len(opened) |->
               [j \in 1 .. Len(Consumed(n)) |->
                  [shard |-> n, entry |-> Consumed(n)[j]]]])

\* the emitted pair i is the record of the passed entry x
IsRecordOf(i, x) ==
    /\ emitted[i].key = x.entry.name
    /\ emitted[i].example.image.path = join(data_dirs[x.shard], x.entry.name)
    /\ emitted[i].example.prompt = x.entry.params.p
    /\ emitted[i].example.seed = x.entry.params.se
    /\ emitted[i].example.step = x.entry.params.st
    /\ emitted[i].example.cfg = x.entry.params.c
    /\ emitted[i].example.sampler = x.entry.params.sa

\* emitted is exactly the records of the passed entries, in order
EmittedIsPassed ==
    /\ Len(emitted) = Len(PassedEntries)
    /\ \A i \in DOMAIN emitted : IsRecordOf(i, PassedEntries[i])

\* the sidecars are opened in resolved order, each at its own path
OpenedInOrder ==
    /\ Len(opened) \in {k, k + 1}
    /\ Len(opened) <= Len(config.part_ids)
    /\ \A n \in DOMAIN opened :
         /\ opened[n][1] = n - 1
         /\ opened[n][2] = json_paths[n]

\* the token the specification documents for a sampler code in 1..9
DocumentedToken(code) ==
    CASE code = 1 -> "ddim"
      [] code = 2 -> "plms"
      [] code = 3 -> "k_euler"
      [] code = 4 -> "k_euler_ancestral"
      [] code = 5 -> "ddik_heunm"
      [] code = 6 -> "k_dpm_2"
      [] code = 7 -> "k_dpm_2_ancestral"
      [] code = 8 -> "k_lms"
      [] code = 9 -> "others"

-----------------------------------------------------------------------------
(* C1 *)

\* C1, as stated: every {policy}_{size} config resolves to as many shard
\* ids as the size it advertises (1000 ids for 1k).
C1_LengthIsAdvertisedSize ==
    \A i \in DOMAIN NumKs : \A s \in {"first", "random"} :
        SizedName(s, i) \in ConfigNames =>
            Len(resolve(SizedName(s, i)).part_ids) = NumKs[i] * Kilo

\* C1, amended: every {policy}_{size} config resolves to num_k shard ids,
\* one per thousand images advertised (1 id for 1k, 1000 ids for 1m).
C1_LengthIsNumK ==
    \A i \in DOMAIN NumKs : \A s \in {"first", "random"} :
        SizedName(s, i) \in ConfigNames =>
            Len(resolve(SizedName(s, i)).part_ids) = NumKs[i]

C1_Witness ==
    /\ pc = "imported"
    /\ \A i \in DOMAIN NumKs : \A s \in {"first", "random"} :
         SizedName(s, i) \in ConfigNames
    /\ Len(resolve(SizedName("first", Len(NumKs))).part_ids) > 1

(* C2 *)

\* C2: every first_{size} config resolves to a contiguous ascending block of
\* ids that starts at shard id 1 and stays inside [1, MaxPartId].
C2_FirstStartsAtOne ==
    \A i \in DOMAIN NumKs :
        SizedName("first", i) \in ConfigNames =>
            LET ids == resolve(SizedName("first", i)).part_ids
            IN  /\ ids # <<>>
                /\ ids[1] = 1
                /\ \A j \in 2 .. Len(ids) : ids[j] = ids[j - 1] + 1
                /\ \A j \in DOMAIN ids : ids[j] \in 1 .. MaxPartId

(* C3 *)

\* C3: for every outcome of the random draw, every random_{size} config
\* resolves to ids without duplicates, all inside [1, MaxPartId].
C3_RandomDistinctInRange ==
    \A i \in DOMAIN NumKs :
        SizedName("random", i) \in ConfigNames =>
            LET ids == resolve(SizedName("random", i)).part_ids
            IN  /\ IsInjective(ids)
                /\ \A j \in DOMAIN ids : ids[j] \in 1 .. MaxPartId

C3_Witness ==
    /\ SizedName("random", Len(NumKs)) \in ConfigNames
    /\ LET ids == resolve(SizedName("random", Len(NumKs))).part_ids
       IN  Len(ids) > 1 /\ ids[1] > ids[2]

(* C4 *)

\* C4: "all" resolves to exactly 1, 2, ..., MaxPartId in ascending order.
C4_AllIsWholeRange ==
    "all" \in ConfigNames =>
        LET ids == resolve("all").part_ids
        IN  /\ Len(ids) = MaxPartId
            /\ \A j \in 1 .. MaxPartId : ids[j] = j

C4_Witness ==
    /\ "all" \in ConfigNames
    /\ config.name = "all"
    /\ Len(config.part_ids) > 1

(* C5 *)

\* C5: "text_only" resolves to the empty list; a text_only run fetches no
\* shard archive and exactly one resource, the metadata table, and generates
\* by table row, never by shard.
C5_TextOnlyFetchesTableOnly ==
    /\ "text_only" \in ConfigNames => resolve("text_only").part_ids = <<>>
    /\ TextMode =>
         /\ Len(fetched) <= 1
         /\ \A i \in DOMAIN fetched :
              fetched[i] = [op |-> "download", url |-> _URLS_metadata]
         /\ pc \in {"generate", "rows", "exhausted"} => Len(fetched) = 1
         /\ data_dirs # <<>> => data_dirs = <<[downloaded |-> _URLS_metadata]>>
         /\ pc \notin {"shards", "images"}
         /\ opened = <<>> /\ json_paths = <<>>
         /\ \A i \in DOMAIN emitted :
              "image_name" \in DOMAIN emitted[i].example

C5_Witness ==
    /\ TextMode
    /\ pc = "exhausted"
    /\ Len(emitted) = 2
    /\ Len(fetched) = 1

(* C6 *)

\* C6: in text-only generation every row passed has a code in 1..9 and was
\* emitted with the documented token; the run fails with UnknownSamplerCode
\* exactly at a row whose code is outside 1..9, with no record for that row.
C6_SamplerTranslation ==
    (TextMode /\ pc \in {"rows", "exhausted", "failed"}
              /\ (pc = "failed" => error.exc = UnknownSamplerCode)) =>
        /\ Len(emitted) = row_idx
        /\ \A i \in 1 .. row_idx :
             /\ metadata_df[i].sampler \in 1 .. 9
             /\ emitted[i].example.sampler = DocumentedToken(metadata_df[i].sampler)
             /\ emitted[i].key = metadata_df[i].image_name
        /\ pc = "exhausted" => row_idx = Len(metadata_df)
        /\ pc = "failed" =>
             /\ row_idx < Len(metadata_df)
             /\ metadata_df[row_idx + 1].sampler \notin 1 .. 9
             /\ error.arg = metadata_df[row_idx + 1].sampler

C6_Witness ==
    /\ TextMode
    /\ pc = "failed"
    /\ error.exc = UnknownSamplerCode
    /\ row_idx = 1
    /\ emitted[1].example.sampler = "ddik_heunm"
    /\ metadata_df[2].sampler = 10

(* C7 *)

\* the stream so far is the concatenation of the entries passed so far
StreamIsPassedEntries ==
    (ImageMode /\ pc \in {"shards", "images", "exhausted"}) =>
        /\ OpenedInOrder
        /\ EmittedIsPassed
        /\ pc = "exhausted" =>
             /\ Len(opened) = Len(config.part_ids)
             /\ k = Len(config.part_ids)

\* a step of an image run never rewinds: the stream only grows at its end,
\* by one record and one sidecar position at a time, the shard position
\* never decreases, and an exhausted stream stays exhausted
StepIsForward ==
    ImageMode =>
        /\ emitted' # emitted =>
             /\ Len(emitted') = Len(emitted) + 1
             /\ SubSeq(emitted', 1, Len(emitted)) = emitted
             /\ k' = k /\ img_idx' = img_idx + 1
        /\ k' \in {k, k + 1}
        /\ (k' = k /\ opened' = opened) => img_idx' >= img_idx
        /\ pc = "exhausted" => pc' = "exhausted"

\* C7: in image mode with no error, the emitted stream is the concatenation,
\* over the resolved shards in order, of each sidecar's entries in sidecar
\* order, one record per filename with its key and its own parameters; the
\* position moves forward only, and at the end every shard was opened once.
C7_StreamIsConcatenation ==
    []StreamIsPassedEntries /\ [][StepIsForward]_vars

C7_Witness ==
    /\ ImageMode
    /\ pc = "exhausted"
    /\ Len(opened) >= 2
    /\ Len(opened[1][3]) = 2
    /\ Len(emitted) >= 3
    /\ emitted[1].example.prompt # emitted[2].example.prompt

(* C8 *)

\* C8: in image mode a missing image file fails the stream with
\* MissingAsset at that record: all records before it in (shard, sidecar)
\* order were yielded, none is yielded for it, none is passed over.
C8_MissingAssetFailsInPlace ==
    ImageMode =>
        /\ pc \in {"images", "failed"} /\ opened # <<>> => EmittedIsPassed
        /\ error.exc = MissingAsset =>
             /\ pc = "failed"
             /\ Len(opened) = k + 1
             /\ img_idx < Len(json_data)
             /\ error.arg = join(data_dirs[k + 1], json_data[img_idx + 1].name)
             /\ Len(emitted) = Len(PassedEntries)

C8_Witness ==
    /\ ImageMode
    /\ error.exc = MissingAsset
    /\ k >= 1
    /\ img_idx = 1
    /\ Len(json_data) = 2
    /\ Len(emitted) >= 2

(* C9 *)

\* C9: nothing is deduplicated: a finished run has emitted one record per
\* sidecar entry of the resolved shards (per row of the table), with the
\* same keys in the same order, whether or not keys repeat.
C9_NoDeduplication ==
    pc = "exhausted" =>
        IF TextMode
        THEN /\ Len(emitted) = Len(metadata_df)
             /\ \A i \in DOMAIN emitted :
                  emitted[i].key = metadata_df[i].image_name
        ELSE LET all == Flatten([n \in 1 .. Len(opened) |-> opened[n][3]])
             IN  /\ Len(opened) = Len(config.part_ids)
                 /\ Len(emitted) = Len(all)
                 /\ \A i \in DOMAIN emitted : emitted[i].key = all[i].name

C9_Witness ==
    /\ pc = "exhausted"
    /\ \/ /\ TextMode
          /\ Len(emitted) = 2
          /\ emitted[1].key = emitted[2].key
       \/ /\ ImageMode
          /\ Len(opened) >= 2
          /\ Len(emitted) = 2
          /\ emitted[1].key = emitted[2].key
          /\ emitted[1].example.image.path # emitted[2].example.image.path

(* C10 *)

\* C10: for an image config every shard is fetched and extracted before any
\* sidecar is opened; data_dirs and json_paths have equal length and their
\* i-th elements belong to the i-th resolved shard id, the sidecar named
\* part-{id:06}.json; sidecar n+1 is opened only after every entry of
\* sidecar n has been emitted.
C10_ShardsPairedAndSequential ==
    ImageMode =>
        /\ Len(data_dirs) = Len(json_paths)
        /\ Len(data_dirs) = part_idx
        /\ \A i \in DOMAIN data_dirs :
             /\ data_dirs[i] = [extracted |-> _URLS(config.part_ids[i])]
             /\ json_paths[i].dir = data_dirs[i]
             /\ json_paths[i].name = "part-" \o Pad06(config.part_ids[i]) \o ".json"
        /\ (opened # <<>> \/ emitted # <<>> \/ pc \in {"shards", "images", "exhausted"}) =>
             /\ part_idx = Len(config.part_ids)
             /\ Len(fetched) = Len(config.part_ids)
             /\ \A i \in DOMAIN fetched :
                  fetched[i] = [op |-> "download_and_extract",
                                url |-> _URLS(config.part_ids[i])]
        /\ \A n \in DOMAIN opened :
             /\ opened[n][2] = json_paths[n]
             /\ n < Len(opened) =>
                  Len(emitted) >= Len(Flatten([m \in 1 .. n |-> opened[m][3]]))

C10_Witness ==
    /\ ImageMode
    /\ pc = "images"
    /\ k = 1
    /\ img_idx = 1
    /\ Len(opened[1][3]) = 2
    /\ config.part_ids[1] > config.part_ids[2]

====
